---- MODULE Spec2Model ----
(***************************************************************************)
(* A model of the swapi collector (src/swapi/views.py, forms.py,          *)
(* models.py): create_collection fetches the paginated people listing,    *)
(* enriches every record, writes a CSV file and inserts a Collection; the *)
(* views list_csv and value_count read a stored CSV back.                 *)
(*                                                                         *)
(* The specifications share the definitions below.                        *)
(*   Spec      the write path, run after run, interleaved with a reader.  *)
(*   FairSpec  Spec, with an upstream that answers every GET.             *)
(*   ReadSpec  list_csv and value_count on a stored Collection.           *)
(*   CacheSpec get_planet_name called on its own, to the cache's limit.   *)
(***************************************************************************)
EXTENDS Integers, Sequences, FiniteSets, TLC

VARIABLES
    pc,            \* where the current create_collection run stands
    uid,           \* its uuid4 (0 before the first run)
    nextUid,       \* the next fresh uuid4
    url,           \* the loop variable `url`
    data,          \* the accumulator `data`
    requests,      \* history: the URLs this run has issued a GET to
    inflight,      \* history: the GETs issued and not yet answered
    pages,         \* history: the bodies this run has received
    files,         \* the file system under COLLECTIONS_BASE: name -> file
    store,         \* the Collection table, in insertion (created_at) order
    storeAtStart,  \* history: the Collection table when this run started
    cache,         \* get_planet_name's lru_cache, least recently used first
    gets,          \* history: answered GETs per planet URL
    lookups,       \* history: per written row, the HTTP status behind its homeworld
    db,            \* the upstream people listing served to the runs
    rpc,           \* where the reader (a list_csv or value_count request) stands
    rcol,          \* the Collection the reader found
    observed,      \* history: what the reader found at the file it opened
    resp,          \* ReadSpec: the last response of a view
    fresh,         \* CacheSpec: how many URLs other than TrackedUrl were looked up
    evicted,       \* history: evictions per planet URL
    returned       \* CacheSpec history: the values returned for TrackedUrl

vars == <<pc, uid, nextUid, url, data, requests, inflight, pages, files, store,
          storeAtStart, cache, gets, lookups, db, rpc, rcol, observed,
          resp, fresh, evicted, returned>>

runVars   == <<pc, uid, nextUid, url, data, requests, inflight, pages,
               storeAtStart>>
readerVars == <<rpc, rcol, observed>>
readVars  == <<resp>>
cacheOnly == <<fresh, evicted, returned>>

----------------------------------------------------------------------------
(* Bounds of the model *)

MaxRuns == 1       \* create_collection runs in one behaviour
MaxPages == 2      \* pages of the upstream listing
MaxPageLen == 2    \* records on one page
MaxRows == 11      \* ReadSpec: data rows of a stored table
MaxPageNumber == 2 \* ReadSpec: the `page` parameter of list_csv
MaxExtra == 1      \* CacheSpec: URLs looked up beyond the cache's size

----------------------------------------------------------------------------
(* Values *)

\* Python's None: a JSON null, a missing dict key
None == "<None>"

\* JSON null in `next`; falsy in `while url`
NullUrl == <<>>

\* A listing URL: the page number and the offset of its first record
PageUrl(p, off) == <<p, off>>

\* f"{settings.SWAPI_BASE_URL}/people/"
BaseUrl == PageUrl(1, 0)

Min(a, b) == IF a < b THEN a ELSE b

RECURSIVE SumSeq(_)
SumSeq(s) == IF s = <<>> THEN 0 ELSE Head(s) + SumSeq(Tail(s))

\* The position of field f in header hdr (0 when absent)
RECURSIVE IndexOf(_, _)
IndexOf(hdr, f) ==
    IF hdr = <<>> THEN 0
    ELSE IF Head(hdr) = f THEN 1
    ELSE LET k == IndexOf(Tail(hdr), f) IN IF k = 0 THEN 0 ELSE k + 1

----------------------------------------------------------------------------
(* The upstream API *)

\* The planets the people of the listing live on
Planets == {1, 2}

PlanetName(u) == "planet" \o ToString(u)

\* Record k of the people listing. In the "dirty" listing record 2 carries an
\* `edited` value that is no date.
Person(d, k) ==
    [ name       |-> "person" \o ToString(k),
      height     |-> ToString(170 + (k % 4)),
      mass       |-> ToString(70 + (k % 5)),
      hair_color |-> IF k % 2 = 1 THEN "blond" ELSE "brown",
      skin_color |-> "fair",
      eye_color  |-> IF k % 3 = 0 THEN "brown" ELSE "blue",
      birth_year |-> IF k % 3 = 0 THEN "41.9BBY" ELSE "19BBY",
      gender     |-> IF k % 2 = 1 THEN "male" ELSE "female",
      homeworld  |-> (k % 2) + 1,
      edited     |-> IF d = "dirty" /\ k = 2 THEN "unknown"
                     ELSE IF k % 2 = 1 THEN "2014-12-20T21:17:56.891000Z"
                     ELSE "Dec 10 2014",
      url        |-> "people/" \o ToString(k) ]

Listings == {"clean", "dirty"}

\* The bodies the listing may answer a GET of <<p, off>> with: a page of s
\* records from offset off, linked to the next page or ending the chain
PeopleBodies(d, u) ==
    LET p == u[1]
        off == u[2]
        Nexts(s) == {NullUrl} \cup
                    (IF p < MaxPages THEN {PageUrl(p + 1, off + s)} ELSE {})
    IN  UNION { { [ results |-> [i \in 1..s |-> Person(d, off + i)],
                    next    |-> nx ] : nx \in Nexts(s) } :
                s \in 0..MaxPageLen }

\* What a GET of planet URL u may be answered with
PlanetResponses(u) ==
    { [status |-> 200, name |-> PlanetName(u)],
      [status |-> 200, name |-> None],
      [status |-> 404, name |-> None] }

----------------------------------------------------------------------------
(* functools.lru_cache around get_planet_name *)

\* @lru_cache without arguments: maxsize=128
LruMaxSize == 128

CacheUrls(c) == {c[i].url : i \in 1..Len(c)}

CachePos(c, u) == CHOOSE i \in 1..Len(c) : c[i].url = u

Without(c, i) == [j \in 1..(Len(c) - 1) |-> IF j < i THEN c[j] ELSE c[j + 1]]

\* A hit moves the entry to the most recently used end
CacheTouch(c, u) == LET i == CachePos(c, u) IN Append(Without(c, i), c[i])

\* A miss stores the result; a full cache first drops its oldest entry
CacheFull(c) == Len(c) >= LruMaxSize

\* A cache that stores nothing
CacheInsert_noStore(c, e) == c

CacheInsert(c, e) ==
    IF CacheFull(c) THEN Append(Tail(c), e) ELSE Append(c, e)

\* A get_planet_name that does not look at the status
PlanetValue_ignoreStatus(r) == r.name

\* The body of get_planet_name on response r
PlanetValue(r) == IF r.status = 200 THEN r.name ELSE ""

----------------------------------------------------------------------------
(* get_date *)

\* dateutil's parse(edited).strftime("%Y-%m-%d") on the strings of the listing
Parseable(e) == e \in {"2014-12-20T21:17:56.891000Z", "Dec 10 2014"}

get_date(e) ==
    CASE e = "2014-12-20T21:17:56.891000Z" -> "2014-12-20"
      [] e = "Dec 10 2014" -> "2014-12-10"

----------------------------------------------------------------------------
(* The table create_collection builds *)

Header == <<"name", "height", "mass", "hair_color", "skin_color", "eye_color",
            "birth_year", "gender", "homeworld", "edited">>

CutFields == <<"name", "height", "mass", "hair_color", "skin_color",
               "eye_color", "birth_year", "gender", "homeworld_name", "date">>

\* etl.fromdicts(data, header=Header): one tuple per dict, in header order
FromDict(rec) == [i \in 1..Len(Header) |-> rec[Header[i]]]

\* the two etl.addfield calls append their value to the row
AddedHeader == Header \o <<"homeworld_name", "date">>

\* etl.cut keeps the named fields, in the order named
Cut(hdr, row) == [i \in 1..Len(CutFields) |-> row[IndexOf(hdr, CutFields[i])]]

\* etl.rename(tbl, "homeworld_name", "homeworld")
StoredHeader ==
    [i \in 1..Len(CutFields) |->
        IF CutFields[i] = "homeworld_name" THEN "homeworld" ELSE CutFields[i]]

\* csv.writer writes None as the empty field and fromcsv reads every field
\* back as a string
ToCsv(v) == IF v = None THEN "" ELSE v

\* The CSV line of dict rec, given the two enrichment values
StoredRow(rec, hw, date) ==
    LET row == FromDict(rec) \o <<hw, date>>
        cut == Cut(AddedHeader, row)
    IN  [i \in 1..Len(cut) |-> ToCsv(cut[i])]

\* f"{uid}.csv"
Filename(u) == <<u, "csv">>

\* collection.file.url, which _get_data joins to COLLECTIONS_BASE: under the
\* default storage it names the file that was written
FileUrl(name) == name

----------------------------------------------------------------------------
(* State shared by the actions *)

GetCount(g, u) == IF u \in DOMAIN g THEN g[u] ELSE 0

\* The counts g with one more for every URL of S
Counted(g, S) ==
    [u \in DOMAIN g \cup S |-> IF u \in S THEN GetCount(g, u) + 1 ELSE g[u]]

NoCollection == [uid |-> 0, file |-> <<>>]

\* What one call get_planet_name(u) may do with cache c: a hit returns the
\* stored value without a GET; a miss issues the GET and stores its result.
\* (A GET that raises stores nothing: see PlanetError.) An entry also records,
\* as history, the status its value was computed from.
PlanetCalls(c, u) ==
    IF u \in CacheUrls(c)
    THEN { [value  |-> c[CachePos(c, u)].value,
            status |-> c[CachePos(c, u)].status,
            cache  |-> CacheTouch(c, u),
            get    |-> FALSE,
            drop   |-> {}] }
    ELSE { [value  |-> PlanetValue(r),
            status |-> r.status,
            cache  |-> CacheInsert(c, [url |-> u, value |-> PlanetValue(r),
                                       status |-> r.status]),
            get    |-> TRUE,
            drop   |-> IF CacheFull(c) THEN {Head(c).url} ELSE {}] :
           r \in PlanetResponses(u) }

\* The Collection saved before the table is written
Pipeline_saveFirst == <<"save", "tocsv", "done">>

\* The steps that follow the fetch loop, in the order of the code: the table is
\* written by etl.tocsv, then the Collection is saved, then the view returns
Pipeline == <<"tocsv", "save", "done">>

StageAfter(s) == Pipeline[IndexOf(Pipeline, s) + 1]

\* A page put in front of the accumulator
Extend_prepend(d, results) == results \o d

\* data.extend(results["results"])
Extend(d, results) == d \o results

\* `while url`
LoopContinues(u) == u # NullUrl

\* A loop that asks for the first page again
NextRequest_stale(body) == IF body.next = NullUrl THEN NullUrl ELSE BaseUrl

\* url = results["next"]: the URL of the next GET
NextRequest(body) == body.next

----------------------------------------------------------------------------
(* create_collection *)

Init ==
    /\ pc = "idle"
    /\ uid = 0
    /\ nextUid = 1
    /\ url = NullUrl
    /\ data = <<>>
    /\ requests = <<>>
    /\ inflight = {}
    /\ pages = <<>>
    /\ files = <<>>
    /\ store = <<>>
    /\ storeAtStart = <<>>
    /\ cache = <<>>
    /\ gets = <<>>
    /\ lookups = <<>>
    /\ db \in Listings
    /\ rpc = "idle"
    /\ rcol = NoCollection
    /\ observed = "none"
    /\ resp = <<>>
    /\ fresh = 0
    /\ evicted = <<>>
    /\ returned = {}

\* A request to /fetch/: lines 90-96, up to the first `await _fetch`
Start ==
    /\ pc \in {"idle", "done", "failed"}
    /\ nextUid <= MaxRuns
    /\ uid' = nextUid
    /\ nextUid' = nextUid + 1
    /\ data' = <<>>
    /\ url' = BaseUrl
    /\ requests' = <<BaseUrl>>
    /\ inflight' = {BaseUrl}
    /\ pages' = <<>>
    /\ lookups' = <<>>
    /\ storeAtStart' = store
    /\ pc' = "await"
    /\ UNCHANGED <<files, store, cache, gets, db, readerVars, readVars, cacheOnly>>

\* _fetch returns a body with both fields: the loop body, and either the next
\* GET or the end of the loop
ReceivePage ==
    /\ pc = "await"
    /\ \E body \in PeopleBodies(db, url) :
        /\ data' = Extend(data, body.results)
        /\ url' = NextRequest(body)
        /\ pages' = Append(pages, body)
        /\ IF LoopContinues(url')
           THEN /\ requests' = Append(requests, url')
                /\ inflight' = {url'}
                /\ pc' = "await"
           ELSE /\ requests' = requests
                /\ inflight' = {}
                /\ pc' = Pipeline[1]
    /\ UNCHANGED <<uid, nextUid, files, store, storeAtStart, cache, gets,
                   lookups, db, readerVars, readVars, cacheOnly>>

\* _fetch raises: a network error, or a body that is no JSON
FetchError ==
    /\ pc = "await"
    /\ pc' = "failed"
    /\ inflight' = {}
    /\ UNCHANGED <<uid, nextUid, url, data, requests, pages, files, store,
                   storeAtStart, cache, gets, lookups, db, readerVars,
                   readVars, cacheOnly>>

\* A body without "results": results["results"] raises KeyError
MissingResults ==
    /\ pc = "await"
    /\ pc' = "failed"
    /\ inflight' = {}
    /\ UNCHANGED <<uid, nextUid, url, data, requests, pages, files, store,
                   storeAtStart, cache, gets, lookups, db, readerVars,
                   readVars, cacheOnly>>

\* A body with "results" and without "next": data is extended, then
\* results["next"] raises KeyError
MissingNext ==
    /\ pc = "await"
    /\ \E body \in PeopleBodies(db, url) :
        data' = Extend(data, body.results)
    /\ pc' = "failed"
    /\ inflight' = {}
    /\ UNCHANGED <<uid, nextUid, url, requests, pages, files, store,
                   storeAtStart, cache, gets, lookups, db, readerVars,
                   readVars, cacheOnly>>

\* etl.tocsv opens the file and writes the header
OpenCsv ==
    /\ pc = "tocsv"
    /\ files' = (Filename(uid) :> [closed |-> FALSE, rows |-> <<StoredHeader>>])
                @@ files
    /\ pc' = "write"
    /\ UNCHANGED <<uid, nextUid, url, data, requests, inflight, pages, store,
                   storeAtStart, cache, gets, lookups, db,
                   readerVars, readVars, cacheOnly>>

\* etl.tocsv pulls one more row through the lazy table: get_planet_name, then
\* get_date, then the line is written
WriteRow ==
    /\ pc = "write"
    /\ Len(lookups) < Len(data)
    /\ LET rec == data[Len(lookups) + 1]
           f == files[Filename(uid)]
       IN  /\ Parseable(rec.edited)
           /\ \E call \in PlanetCalls(cache, rec.homeworld) :
                /\ cache' = call.cache
                /\ gets' = IF call.get THEN Counted(gets, {rec.homeworld}) ELSE gets
                /\ evicted' = Counted(evicted, call.drop)
                /\ lookups' = Append(lookups, call.status)
                /\ files' = [files EXCEPT ![Filename(uid)].rows =
                               Append(f.rows,
                                      StoredRow(rec, call.value, get_date(rec.edited)))]
    /\ UNCHANGED <<runVars, store, db, readerVars, readVars, fresh, returned>>

\* requests.get raises inside get_planet_name: nothing is stored in the cache
PlanetError ==
    /\ pc = "write"
    /\ Len(lookups) < Len(data)
    /\ data[Len(lookups) + 1].homeworld \notin CacheUrls(cache)
    /\ pc' = "failed"
    /\ UNCHANGED <<uid, nextUid, url, data, requests, inflight, pages, files,
                   store, storeAtStart, cache, gets, lookups, db, readerVars,
                   readVars, cacheOnly>>

\* parse(edited) raises inside get_date, after the row's get_planet_name
DateError ==
    /\ pc = "write"
    /\ Len(lookups) < Len(data)
    /\ LET rec == data[Len(lookups) + 1]
       IN  /\ ~Parseable(rec.edited)
           /\ \E call \in PlanetCalls(cache, rec.homeworld) :
                /\ cache' = call.cache
                /\ gets' = IF call.get THEN Counted(gets, {rec.homeworld}) ELSE gets
                /\ evicted' = Counted(evicted, call.drop)
    /\ pc' = "failed"
    /\ UNCHANGED <<uid, nextUid, url, data, requests, inflight, pages, files,
                   store, storeAtStart, lookups, db, readerVars, readVars,
                   fresh, returned>>

\* etl.tocsv has written every row and closes the file
CloseCsv ==
    /\ pc = "write"
    /\ Len(lookups) = Len(data)
    /\ files' = [files EXCEPT ![Filename(uid)].closed = TRUE]
    /\ pc' = StageAfter("tocsv")
    /\ UNCHANGED <<uid, nextUid, url, data, requests, inflight, pages, store,
                   storeAtStart, cache, gets, lookups, db,
                   readerVars, readVars, cacheOnly>>

\* collection.asave(): lines 134-137
Asave ==
    /\ pc = "save"
    /\ store' = Append(store, [uid |-> uid, file |-> Filename(uid)])
    /\ pc' = StageAfter("save")
    /\ UNCHANGED <<uid, nextUid, url, data, requests, inflight, pages, files,
                   storeAtStart, cache, gets, lookups, db,
                   readerVars, readVars, cacheOnly>>

----------------------------------------------------------------------------
(* _get_data, as list_csv and value_count call it while runs are under way *)

\* The uids a request may name: those of the runs, and one of no run
RequestUids == 1..(MaxRuns + 1)

\* Collection.objects.get(pk=id), NoCollection when there is none
Lookup(id) ==
    IF \E i \in 1..Len(store) : store[i].uid = id
    THEN store[CHOOSE i \in 1..Len(store) : store[i].uid = id]
    ELSE NoCollection

\* get_object_or_404(Collection, pk=collection_uid)
FindCollection ==
    /\ rpc = "idle"
    /\ \E id \in RequestUids :
        IF Lookup(id) # NoCollection
        THEN /\ rcol' = Lookup(id)
             /\ rpc' = "found"
             /\ observed' = observed
        ELSE UNCHANGED <<rpc, rcol, observed>>
    /\ UNCHANGED <<runVars, files, store, cache, gets, lookups, db, readVars,
                   cacheOnly>>

\* etl.fromcsv of the Collection's file, read by the view
ReadFile ==
    /\ rpc = "found"
    /\ LET path == FileUrl(rcol.file)
       IN  observed' = IF path \notin DOMAIN files THEN "missing"
                       ELSE IF files[path].closed THEN "complete"
                       ELSE "partial"
    /\ rpc' = "idle"
    /\ rcol' = NoCollection
    /\ UNCHANGED <<runVars, files, store, cache, gets, lookups, db, readVars,
                   cacheOnly>>

Next ==
    \/ Start
    \/ ReceivePage
    \/ FetchError
    \/ MissingResults
    \/ MissingNext
    \/ OpenCsv
    \/ WriteRow
    \/ PlanetError
    \/ DateError
    \/ CloseCsv
    \/ Asave
    \/ FindCollection
    \/ ReadFile

Spec == Init /\ [][Next]_vars

\* The upstream answers every GET it is sent, with a body or an error
FairSpec ==
    Spec /\ WF_vars(ReceivePage \/ FetchError \/ MissingResults \/ MissingNext)

----------------------------------------------------------------------------
(* Properties of the write path *)

Col(row, f) == row[IndexOf(StoredHeader, f)]

RECURSIVE Flatten(_)
Flatten(ps) ==
    IF ps = <<>> THEN <<>> ELSE Head(ps).results \o Flatten(Tail(ps))

SizesOf(ps) == [i \in 1..Len(ps) |-> Len(ps[i].results)]

StoredUids == {store[i].uid : i \in 1..Len(store)}

NoDuplicates(s) == \A i, j \in 1..Len(s) : s[i] = s[j] => i = j

\* C1: every persisted Collection names a file that exists, is closed and holds
\* every row of its build, and no reader that came to a file through the store
\* has found it missing or still being written.
C1_FileCompleteBeforeRecord ==
    /\ \A i \in 1..Len(store) :
        LET path == FileUrl(store[i].file)
        IN  /\ path \in DOMAIN files
            /\ files[path].closed
            /\ store[i].uid = uid => Len(files[path].rows) = Len(data) + 1
    /\ observed \notin {"partial", "missing"}

\* A reader has read the file of a persisted Collection
C1_Witness == Len(store) >= 1 /\ observed = "complete"

\* C2: a run that has failed has left the Collection table as it was when the
\* run started, holds no record of its own, has no GET outstanding and has asked
\* for no URL twice.
C2_FailureLeavesStore ==
    pc = "failed" =>
        /\ store = storeAtStart
        /\ uid \notin StoredUids
        /\ inflight = {}
        /\ NoDuplicates(requests)
        /\ Len(requests) <= Len(pages) + 1

\* A run has failed in the table build, with its file half written
C2_Witness ==
    /\ pc = "failed"
    /\ Filename(uid) \in DOMAIN files
    /\ Len(files[Filename(uid)].rows) >= 2

\* C3: the rows written so far are, in order, the first records of the pages
\* received, page after page, and a finished file holds as many rows as the
\* page sizes add up to.
C3_RowsInPageOrder ==
    Filename(uid) \in DOMAIN files =>
        LET f == files[Filename(uid)]
            recs == Flatten(pages)
            n == Len(f.rows) - 1
        IN  /\ n <= Len(recs)
            /\ f.closed => n = SumSeq(SizesOf(pages))
            /\ \A i \in 1..n :
                 \A c \in {"name", "height", "mass", "hair_color", "skin_color",
                           "eye_color", "birth_year", "gender"} :
                    Col(f.rows[i + 1], c) = recs[i][c]

\* A run has written a table of two full pages
C3_Witness ==
    /\ pc = "done"
    /\ Len(pages) = 2
    /\ Len(pages[1].results) = 2
    /\ Len(pages[2].results) = 2
    /\ Len(files[Filename(uid)].rows) = 5

\* C9: a lookup answered with a status other than 200 is cached and returned as
\* the empty string, the row it was made for holds the empty string in its
\* homeworld column, a run only fails in the table build at a row whose date does
\* not parse or whose lookup raised, and a run that is done has written every
\* row and is in the Collection table.
C9_NonSuccessIsEmpty ==
    /\ \A i \in 1..Len(cache) : cache[i].status # 200 => cache[i].value = ""
    /\ \A i \in 1..Len(lookups) :
         lookups[i] # 200 =>
            Col(files[Filename(uid)].rows[i + 1], "homeworld") = ""
    /\ (pc = "failed" /\ Filename(uid) \in DOMAIN files) =>
         /\ Len(lookups) < Len(data)
         /\ \/ ~Parseable(data[Len(lookups) + 1].edited)
            \/ data[Len(lookups) + 1].homeworld \notin CacheUrls(cache)
    /\ pc = "done" => (uid \in StoredUids /\ Len(lookups) = Len(data))

\* A run is done and persisted with a row whose lookup was answered 404
C9_Witness ==
    /\ pc = "done"
    /\ uid \in StoredUids
    /\ \E i \in 1..Len(lookups) : lookups[i] = 404

\* The fetch loop's requests, one at a time and each to the URL the page before
\* it named
SequentialFetch ==
    /\ Cardinality(inflight) <= 1
    /\ pc = "await" => (inflight = {url} /\ Len(requests) = Len(pages) + 1)
    /\ Len(requests) >= 1 => requests[1] = BaseUrl
    /\ \A i \in 2..Len(requests) : requests[i] = pages[i - 1].next
    /\ pc \in {"tocsv", "write", "save", "done"} =>
         /\ Len(pages) >= 1
         /\ Len(requests) = Len(pages)
         /\ pages[Len(pages)].next = NullUrl
         /\ \A i \in 1..(Len(pages) - 1) : pages[i].next # NullUrl

\* C10: the loop issues one GET per page of the chain, each to the URL named by
\* the page before it, with at most one outstanding, and a run waiting for a page
\* eventually leaves the loop.
C10_SequentialAndTerminates ==
    /\ []SequentialFetch
    /\ (pc = "await") ~> (pc # "await")

\* A run has left the loop after a chain of two pages
C10_Witness ==
    /\ pc = "tocsv"
    /\ Len(requests) = 2
    /\ Len(pages) = 2

----------------------------------------------------------------------------
(* petl tables as the views use them: a table is its rows, the header first *)

\* Python's order on the strings a stored table holds
Collation ==
    <<"", "170", "171", "172", "173", "19BBY", "2014-12-10", "2014-12-20",
      "41.9BBY", "70", "71", "72", "73", "74", "blond", "blue", "brown",
      "fair", "female", "male", "person1", "person10", "person11",
      "person12", "person13", "person14", "person15", "person16", "person17",
      "person18", "person19", "person2", "person20", "person21", "person22",
      "person23", "person24", "person3", "person4", "person5", "person6",
      "person7", "person8", "person9", "planet1", "planet2">>

RankTable == [s \in {Collation[i] : i \in 1..Len(Collation)} |-> IndexOf(Collation, s)]

Rank(s) == RankTable[s]

\* Python's order on tuples of equal length
RECURSIVE LexLess(_, _)
LexLess(a, b) ==
    IF a = <<>> \/ b = <<>> THEN FALSE
    ELSE IF Head(a) < Head(b) THEN TRUE
    ELSE IF Head(a) > Head(b) THEN FALSE
    ELSE LexLess(Tail(a), Tail(b))

\* sorted(): a stable sort of [k, row] pairs by k
RECURSIVE InsertDecorated(_, _)
InsertDecorated(s, e) ==
    IF s = <<>> THEN <<e>>
    ELSE IF LexLess(e.k, Head(s).k) THEN <<e>> \o s
    ELSE <<Head(s)>> \o InsertDecorated(Tail(s), e)

RECURSIVE StableSort(_)
StableSort(d) ==
    IF d = <<>> THEN <<>>
    ELSE InsertDecorated(StableSort(SubSeq(d, 1, Len(d) - 1)), d[Len(d)])

Undecorate(d) == [i \in 1..Len(d) |-> d[i].row]

\* The values of row at the fields `key` of header hdr
KeyOf(hdr, key, row) == [i \in 1..Len(key) |-> row[IndexOf(hdr, key[i])]]

\* len(table): every row, the header too
TableLen(t) == Len(t)

\* etl.header(table)
HeaderOf(t) == t[1]

\* table.skip(n): the first n rows are dropped, the header among them
Skip(t, n) == SubSeq(t, n + 1, Len(t))

\* etl.rowslice(table, start, stop): the header, then data rows start..stop-1
RowSlice(t, start, stop) ==
    IF t = <<>> THEN <<>>
    ELSE <<t[1]>> \o SubSeq(t, start + 2, Min(stop + 1, Len(t)))

\* A table that is taken to be sorted already
SortByKey_presorted(t, key) == t

\* etl.sort(table, key): the data rows in the order of their key values
SortByKey(t, key) ==
    LET d == [i \in 1..(Len(t) - 1) |->
                [k   |-> [j \in 1..Len(key) |->
                            Rank(KeyOf(t[1], key, t[i + 1])[j])],
                 row |-> t[i + 1]]]
    IN  <<t[1]>> \o Undecorate(StableSort(d))

\* .sort("value", reverse=True): the largest count first, ties left in order
SortByValueDesc(t) ==
    LET d == [i \in 1..(Len(t) - 1) |->
                [k |-> <<0 - t[i + 1][Len(t[i + 1])]>>, row |-> t[i + 1]]]
    IN  <<t[1]>> \o Undecorate(StableSort(d))

\* itertools.groupby: the length of the run of rows with key k at the front
RECURSIVE RunLength(_, _, _, _)
RunLength(hdr, key, rows, k) ==
    IF rows = <<>> \/ KeyOf(hdr, key, Head(rows)) # k THEN 0
    ELSE 1 + RunLength(hdr, key, Tail(rows), k)

RECURSIVE GroupCounts(_, _, _)
GroupCounts(hdr, key, rows) ==
    IF rows = <<>> THEN <<>>
    ELSE LET k == KeyOf(hdr, key, Head(rows))
             n == RunLength(hdr, key, rows, k)
         IN  <<k \o <<n>>>> \o GroupCounts(hdr, key, SubSeq(rows, n + 1, Len(rows)))

\* etl.aggregate(table, key=columns, aggregation=len)
Aggregate(t, key) ==
    LET s == SortByKey(t, key)
    IN  <<key \o <<"value">>>> \o GroupCounts(t[1], key, Tail(s))

----------------------------------------------------------------------------
(* list_csv *)

rows_per_page == 10

StartRow(page_number) == (page_number - 1) * rows_per_page

EndRow(page_number) == StartRow(page_number) + rows_per_page

\* A slice that stops at end_row
ListRows_sliceToEnd(t, page_number) ==
    RowSlice(Skip(t, 1), 0, EndRow(page_number))

\* list(etl.rowslice(table.skip(1), 0, end_row - 1)): every row of the sliced
\* table, its header row too
ListRows(t, page_number) ==
    RowSlice(Skip(t, 1), 0, EndRow(page_number) - 1)

\* len(table) > end_row
HasMorePages(t, page_number) == TableLen(t) > EndRow(page_number)

list_csv(t, page_number) ==
    [ kind     |-> "list",
      page     |-> page_number,
      rows     |-> ListRows(t, page_number),
      headers  |-> HeaderOf(t),
      has_more |-> HasMorePages(t, page_number) ]

----------------------------------------------------------------------------
(* ColumnsForm and value_count *)

COLUMNS_CHOICES ==
    {"name", "height", "mass", "hair_color", "skin_color", "eye_color",
     "birth_year", "gender", "homeworld", "date"}

DefaultColumns == <<"birth_year", "homeworld">>

\* request.POST or None: an empty QueryDict is falsy and leaves the form unbound
Bound(post) == post.other \/ post.columns # <<>>

\* A columns field that is not required
IsValid_notRequired(post) ==
    /\ Bound(post)
    /\ \A i \in 1..Len(post.columns) : post.columns[i] \in COLUMNS_CHOICES

\* form.is_valid(): a bound form, a non-empty selection, every value a choice
IsValid(post) ==
    /\ Bound(post)
    /\ post.columns # <<>>
    /\ \A i \in 1..Len(post.columns) : post.columns[i] \in COLUMNS_CHOICES

Columns(post) == IF IsValid(post) THEN post.columns ELSE DefaultColumns

value_count(t, post) ==
    LET agg == SortByValueDesc(Aggregate(t, Columns(post)))
    IN  [ kind    |-> "value",
          post    |-> post,
          rows    |-> Skip(agg, 1),
          headers |-> HeaderOf(agg) ]

----------------------------------------------------------------------------
(* ReadSpec: the views on the tables a run can have stored *)

\* One answer per planet, as the cache holds it while a table is built
PlanetAnswers ==
    { f \in [Planets -> UNION {PlanetResponses(u) : u \in Planets}] :
        \A u \in Planets : f[u] \in PlanetResponses(u) }

\* The CSV file of a run that fetched the first n records of the clean listing
StoredTable(n, answers) ==
    <<StoredHeader>> \o
    [i \in 1..n |->
        LET rec == Person("clean", i)
        IN  StoredRow(rec, PlanetValue(answers[rec.homeworld]),
                      get_date(rec.edited))]

\* The column selections a request may carry
Selections ==
    { <<>>, <<"gender">>, <<"name">>, <<"birth_year", "homeworld">>,
      <<"gender", "eye_color">>, <<"date", "homeworld", "gender">>,
      <<"bogus">>, <<"gender", "bogus">> }

\* request.POST: the selected columns, and whether it holds any other field
Posts == [other : BOOLEAN, columns : Selections]

\* A process started on a store that holds one Collection, written by a run
\* of an earlier process
ReadInit ==
    /\ pc = "idle"
    /\ uid = 0
    /\ nextUid = 2
    /\ url = NullUrl
    /\ data = <<>>
    /\ requests = <<>>
    /\ inflight = {}
    /\ pages = <<>>
    /\ \E n \in 0..MaxRows, answers \in PlanetAnswers :
         files = (Filename(1) :> [closed |-> TRUE, rows |-> StoredTable(n, answers)])
    /\ store = <<[uid |-> 1, file |-> Filename(1)]>>
    /\ storeAtStart = <<>>
    /\ cache = <<>>
    /\ gets = <<>>
    /\ lookups = <<>>
    /\ db = "clean"
    /\ rpc = "idle"
    /\ rcol = NoCollection
    /\ observed = "none"
    /\ resp = [kind |-> "none"]
    /\ fresh = 0
    /\ evicted = <<>>
    /\ returned = {}

\* _get_data: Http404, or the table read from the Collection's file
Http404 == [kind |-> "404"]

GetData(id) == files[FileUrl(Lookup(id).file)].rows

\* GET /list/<uid>/?page=<page_number>
ListCsv ==
    /\ \E id \in RequestUids, page_number \in 1..MaxPageNumber :
         resp' = IF Lookup(id) = NoCollection THEN Http404
                 ELSE list_csv(GetData(id), page_number)
    /\ UNCHANGED <<runVars, files, store, cache, gets, lookups, db,
                   readerVars, cacheOnly>>

\* GET or POST /value/<uid>/
ValueCount ==
    /\ \E id \in RequestUids, post \in Posts :
         resp' = IF Lookup(id) = NoCollection THEN Http404
                 ELSE value_count(GetData(id), post)
    /\ UNCHANGED <<runVars, files, store, cache, gets, lookups, db,
                   readerVars, cacheOnly>>

ReadNext == ListCsv \/ ValueCount

ReadSpec == ReadInit /\ [][ReadNext]_vars

----------------------------------------------------------------------------
(* Properties of the views *)

\* The table of the stored Collection
Stored == files[FileUrl(store[1].file)].rows

TotalRows == Len(Stored) - 1

DataRows == SubSeq(Stored, 2, Len(Stored))

\* C4: has_more is true exactly when the table holds more data rows than the
\* window ends at.
C4_HasMoreClaim ==
    resp.kind = "list" =>
        resp.has_more = (TotalRows > EndRow(resp.page))

\* C5: list_csv returns the data rows from the first one up to the end of the
\* window, in stored order and without the header.
C5_WindowFromRowZero ==
    resp.kind = "list" =>
        /\ resp.rows = SubSeq(DataRows, 1, Min(TotalRows, EndRow(resp.page)))
        /\ resp.headers = StoredHeader

\* The second page of a table of eleven rows has been listed
C5_Witness ==
    /\ resp.kind = "list"
    /\ resp.page = 2
    /\ TotalRows = 11
    /\ Len(resp.rows) = 11

\* What the claims call a valid selection
AllowedVocabulary ==
    {"name", "height", "mass", "hair_color", "skin_color", "eye_color",
     "birth_year", "gender", "homeworld", "date"}

ValidSelection(cols) ==
    cols # <<>> /\ \A i \in 1..Len(cols) : cols[i] \in AllowedVocabulary

GroupKey(row) == SubSeq(row, 1, Len(row) - 1)

GroupCount(row) == row[Len(row)]

ResponseCounts == [i \in 1..Len(resp.rows) |-> GroupCount(resp.rows[i])]

\* C7: for a valid selection the response holds one row per combination of
\* values the table holds in the selected columns, each with the number of data
\* rows that carry it, and the counts add up to the number of data rows.
C7_OneRowPerCombination ==
    (resp.kind = "value" /\ ValidSelection(resp.post.columns)) =>
        LET cols == resp.post.columns
            keys == {KeyOf(StoredHeader, cols, DataRows[i]) : i \in 1..TotalRows}
        IN  /\ {GroupKey(resp.rows[i]) : i \in 1..Len(resp.rows)} = keys
            /\ Len(resp.rows) = Cardinality(keys)
            /\ \A i \in 1..Len(resp.rows) :
                 GroupCount(resp.rows[i]) =
                   Cardinality({j \in 1..TotalRows :
                       KeyOf(StoredHeader, cols, DataRows[j]) = GroupKey(resp.rows[i])})
            /\ SumSeq(ResponseCounts) = TotalRows
            /\ \A i \in 1..(Len(resp.rows) - 1) :
                 GroupCount(resp.rows[i]) >= GroupCount(resp.rows[i + 1])

\* A table of eight rows has been counted by gender
C7_Witness ==
    /\ resp.kind = "value"
    /\ resp.post.columns = <<"gender">>
    /\ TotalRows = 8
    /\ Len(resp.rows) = 2

\* C8: a request without a valid selection is answered with the counts of
\* (birth_year, homeworld), and only a valid selection replaces that pair.
C8_DefaultColumns ==
    resp.kind = "value" =>
        GroupKey(resp.headers) =
            IF Bound(resp.post) /\ ValidSelection(resp.post.columns)
            THEN resp.post.columns
            ELSE <<"birth_year", "homeworld">>

\* A selection with a value outside the vocabulary has been counted by the
\* default pair
C8_Witness ==
    /\ resp.kind = "value"
    /\ resp.post.columns = <<"gender", "bogus">>
    /\ GroupKey(resp.headers) = <<"birth_year", "homeworld">>
    /\ TotalRows >= 3

----------------------------------------------------------------------------
(* CacheSpec: get_planet_name called with one URL again and again, and with *)
(* URLs it has not seen before                                              *)

\* The URL whose calls are followed
TrackedUrl == 1

\* The URLs looked up besides it, in the order of their first call
FreshUrl(f) == TrackedUrl + f

CacheInit ==
    /\ pc = "idle"
    /\ uid = 0
    /\ nextUid = 1
    /\ url = NullUrl
    /\ data = <<>>
    /\ requests = <<>>
    /\ inflight = {}
    /\ pages = <<>>
    /\ files = <<>>
    /\ store = <<>>
    /\ storeAtStart = <<>>
    /\ cache = <<>>
    /\ gets = <<>>
    /\ lookups = <<>>
    /\ db = "clean"
    /\ rpc = "idle"
    /\ rcol = NoCollection
    /\ observed = "none"
    /\ resp = <<>>
    /\ fresh = 0
    /\ evicted = <<>>
    /\ returned = {}

\* get_planet_name(TrackedUrl), answered with a name or with a 404
CallTracked ==
    /\ \E call \in PlanetCalls(cache, TrackedUrl) :
        /\ call.value # None
        /\ cache' = call.cache
        /\ gets' = IF call.get THEN Counted(gets, {TrackedUrl}) ELSE gets
        /\ evicted' = Counted(evicted, call.drop)
        /\ returned' = returned \cup {call.value}
    /\ UNCHANGED <<runVars, files, store, lookups, db, readerVars, readVars,
                   fresh>>

\* get_planet_name of a URL not looked up before, answered with its name
CallFresh ==
    /\ fresh < LruMaxSize + MaxExtra
    /\ fresh' = fresh + 1
    /\ \E call \in PlanetCalls(cache, FreshUrl(fresh')) :
        /\ call.status = 200
        /\ call.value # None
        /\ cache' = call.cache
        /\ gets' = IF call.get THEN Counted(gets, {FreshUrl(fresh')}) ELSE gets
        /\ evicted' = Counted(evicted, call.drop)
    /\ UNCHANGED <<runVars, files, store, lookups, db, readerVars, readVars,
                   returned>>

\* requests.get raises inside get_planet_name(TrackedUrl): the exception leaves
\* the call and nothing is stored
CallRaises ==
    /\ TrackedUrl \notin CacheUrls(cache)
    /\ UNCHANGED vars

CacheNext == CallTracked \/ CallFresh \/ CallRaises

CacheSpec == CacheInit /\ [][CacheNext]_vars

----------------------------------------------------------------------------
(* Properties of the cache *)

SeenUrls == DOMAIN gets

====
